---- MODULE Spec2Model ----
(***************************************************************************)
(* Model of the benchmarking and calibration scripts of the repository:    *)
(*   Obtain error rates/error_rate_all_machine.py  (calibration collector) *)
(*   BenchMarking_Circuits/bv_algo.py              (BV sweep + summary)    *)
(*   BenchMarking_Circuits/qv_10_5-_d10_25.py      (QV sweep)              *)
(*   BenchMarking_Circuits/bv_19998.py             (large BV estimator)    *)
(* The external collaborators (hardware service, optimizer, random source) *)
(* are inputs of the actions, drawn from small sets.                       *)
(***************************************************************************)
EXTENDS Integers, Sequences, FiniteSets, TLC

VARIABLES
    prog,       \* which script / function is running
    pc,         \* control position of the running script
    backends,   \* calibration collector: service.backends(), the backend objects
    fake,       \* calibration collector: what the FakeOslo snapshot answers
    idx,        \* 1-based index of the next loop iteration
    results,    \* the results dict (collector) or results list (sweeps)
    log,        \* standard output, the lines that matter
    saved,      \* the output file: whether it was written, and its content
    summary,    \* bv_algo: the printed summary statistics
    circuit_meta, \* bv_19998: last metadata returned by create_large_bv_circuit
    est,        \* bv_19998: last values returned by estimate_sabre_performance
    prev,       \* bv_19998: the call of estimate_sabre_performance before the last
    qc,         \* last circuit returned by create_bv_circuit / create_small_test_circuit
    args        \* the arguments of the last call of a function called on its own

vars == <<prog, pc, backends, fake, idx, results, log, saved, summary,
          circuit_meta, est, prev, qc, args>>

\* Python's None.
None == [py |-> "None"]

\* The empty dict.
EmptyDict == <<>>

Min(S) == CHOOSE x \in S : \A y \in S : x <= y

\* [f(s[1]), ..., f(s[n])] of a list comprehension.
MapSeq(f(_), s) == [k \in 1..Len(s) |-> f(s[k])]

(***************************************************************************)
(* Calibration collector: error_rate_all_machine.py                        *)
(***************************************************************************)

\* Bound: number of devices service.backends() returns (0..MaxBackends).
MaxBackends == 2

BackendNames == [k \in 1..MaxBackends |-> <<"ibm", k>>]

\* str.lower() on the characters that occur in the modelled messages.
LowerChar(c) ==
    CASE c = "R" -> "r" [] c = "E" -> "e" [] c = "T" -> "t" [] c = "I" -> "i"
      [] c = "D" -> "d" [] c = "A" -> "a" [] OTHER -> c

Lower(s) == [k \in 1..Len(s) |-> LowerChar(s[k])]

\* Python's `sub in s` on strings (sequences of characters).
Contains(sub, s) ==
    \E k \in 1..(Len(s) - Len(sub) + 1) : SubSeq(s, k, k + Len(sub) - 1) = sub

\* "retired" in str(e).lower()
IsRetired(msg) == Contains(<<"r", "e", "t", "i", "r", "e", "d">>, Lower(msg))

\* Exception messages the live service may raise with.
Messages ==
    { <<"R", "e", "t", "i", "r", "e", "d">>,
      <<"i", "s", " ", "R", "E", "T", "I", "R", "E", "D">>,
      <<"t", "i", "m", "e", "o", "u", "t">> }

\* The AttributeError of an attribute the gate object does not define.
AttrMsg(name) == <<"A", "t", "t", "r", " ", name>>

\* A Python str literal, and the str f"{value:<spec>}" of a float.
Str(s) == [str |-> s]
Fmt(spec, v) == [fmt |-> spec, val |-> v]

\* A datetime.
Date(d) == [py |-> "date", v |-> d]

\* What one call of a metric getter does: returns a float, returns a
\* non-float (None), or raises.
Float(v) == [kind |-> "float", v |-> v]
NonFloat == [kind |-> "none"]
Raises == [kind |-> "raise"]
MetricOutcomes == {Float(1), NonFloat, Raises}

\* safe_get(func, qubit)
safe_get(call) ==
    CASE call.kind = "raise" -> Str("N/A")
      [] call.kind = "float" -> Fmt(".2e", call.v)
      [] OTHER -> Str("None")

\* Gate objects of props.gates: `attrs` are the attributes beyond
\* gate/qubits/parameters that the object defines.
Gate(g, qs, ps, attrs) == [gate |-> g, qubits |-> qs, parameters |-> ps, attrs |-> attrs]
CxFull == Gate("cx", <<0, 1>>, << [name |-> "gate_error", value |-> Float(7)],
                                  [name |-> "gate_length", value |-> Float(3)] >>,
               [gate_length |-> Float(3), error |-> Float(7)])
CxNoErrorParam == Gate("cx", <<0, 1>>, << [name |-> "gate_length", value |-> Float(3)] >>,
                       [gate_length |-> Float(3), error |-> Float(7)])
CxNoAttrs == Gate("cx", <<0, 1>>, << [name |-> "gate_error", value |-> Float(7)] >>, <<>>)
IdGate == Gate("id", <<0>>, <<>>, <<>>)
GateLists == { <<>>, <<CxFull>>, <<IdGate, CxFull>>, <<CxNoErrorParam>>, <<CxNoAttrs>> }

\* A properties object: per-qubit getters, gates, last_update_date.
Props(nq, t1, t2, ro, fr, gates, upd) ==
    [kind |-> "ok", num_qubits |-> nq, t1 |-> t1, t2 |-> t2, readout_error |-> ro,
     frequency |-> fr, gates |-> gates, last_update_date |-> upd]

AllFloat(nq) == [q \in 0..(nq - 1) |-> Float(1)]

\* Properties the live service may answer with: every getter works, or one
\* thing deviates (a gate list, the update date, one getter of qubit 0).
GoodProps(nq) ==
    Props(nq, AllFloat(nq), AllFloat(nq), AllFloat(nq), AllFloat(nq), <<CxFull>>,
          Date(20240101))
OneQubit(t1, t2, ro, fr) ==
    Props(1, [q \in {0} |-> t1], [q \in {0} |-> t2], [q \in {0} |-> ro],
          [q \in {0} |-> fr], <<CxFull>>, Date(20240101))
LiveProps ==
    { GoodProps(1), GoodProps(2) }
    \cup { [GoodProps(1) EXCEPT !.gates = g] : g \in GateLists }
    \cup { [GoodProps(1) EXCEPT !.last_update_date = None] }
    \cup { OneQubit(Raises, Float(1), Float(1), Float(1)),
           OneQubit(NonFloat, Float(1), Float(1), Float(1)),
           OneQubit(Float(1), Raises, Float(1), Float(1)),
           OneQubit(Float(1), Float(1), Raises, Float(1)),
           OneQubit(Float(1), Float(1), Float(1), NonFloat) }

\* What backend.status() and backend.properties() do for one device.
StatusOutcomes ==
    { [kind |-> "ok", operational |-> o, pending_jobs |-> 4] : o \in BOOLEAN }
    \cup { [kind |-> "raise", msg |-> m] : m \in Messages }

PropsOutcomes ==
    LiveProps \cup { [kind |-> "none"] }
    \cup { [kind |-> "raise", msg |-> m] : m \in Messages }

\* The behaviours of a device: a failing status() never reaches properties().
LiveBehaviours ==
    { [status |-> s, props |-> [kind |-> "none"]] :
        s \in {x \in StatusOutcomes : x.kind = "raise"} }
    \cup
    { [status |-> s, props |-> p] :
        s \in {x \in StatusOutcomes : x.kind = "ok" /\ x.operational}, p \in PropsOutcomes }
    \cup
    { [status |-> s, props |-> GoodProps(1)] :
        s \in {x \in StatusOutcomes : x.kind = "ok" /\ ~x.operational} }

\* A backend object of service.backends(): its name and how it behaves.
Backend(k, b) == [name |-> BackendNames[k], status |-> b.status, props |-> b.props]

\* The lists service.backends() may return, up to MaxBackends devices.
BackendLists ==
    UNION { { [k \in 1..n |-> Backend(k, bs[k])] : bs \in [1..n -> LiveBehaviours] } :
            n \in 0..MaxBackends }

HasAttr(gate, a) == a \in DOMAIN gate.attrs

IsCx(gate) == gate.gate = "cx"

\* next((p.value for p in gate.parameters if p.name == "gate_error"), None)
gate_error_param(gate) ==
    LET hits == {k \in 1..Len(gate.parameters) : gate.parameters[k].name = "gate_error"}
    IN  IF hits = {} THEN None ELSE gate.parameters[Min(hits)].value

\* lines 26-35: the per-qubit records.
qubit_errors(props) ==
    [k \in 1..props.num_qubits |->
       [qubit |-> k - 1,
        T1 |-> safe_get(props.t1[k - 1]),
        T2 |-> safe_get(props.t2[k - 1]),
        readout_error |-> safe_get(props.readout_error[k - 1]),
        frequency |-> safe_get(props.frequency[k - 1])]]

\* lines 38-48: the per-gate records of the cx gates.
gate_data(gate) ==
    [gate |-> gate.gate, qubits |-> gate.qubits,
     error_rate |-> gate_error_param(gate), gate_length |-> gate.attrs.gate_length]

gate_errors(props) == MapSeq(gate_data, SelectSeq(props.gates, IsCx))

\* The try body, lines 15-57, for a device that behaves as b: the entry it
\* stores, a skip (no properties), or the exception it raises.
LiveQuery(b) ==
    IF b.status.kind = "raise" THEN [kind |-> "exc", msg |-> b.status.msg]
    ELSE IF b.props.kind = "raise" THEN [kind |-> "exc", msg |-> b.props.msg]
    ELSE IF b.props.kind = "none" THEN [kind |-> "skip"]
    ELSE IF \E k \in 1..Len(b.props.gates) :
                IsCx(b.props.gates[k]) /\ ~HasAttr(b.props.gates[k], "gate_length")
         THEN [kind |-> "exc", msg |-> AttrMsg("gate_length")]
    ELSE [kind |-> "entry",
          rec |-> [operational |-> b.status.operational,
                   pending_jobs |-> b.status.pending_jobs,
                   qubits |-> qubit_errors(b.props),
                   cx_gates |-> gate_errors(b.props),
                   last_update |-> IF b.props.last_update_date # None
                                   THEN Fmt("iso", b.props.last_update_date.v)
                                   ELSE None]]

\* What the substitute snapshot (FakeOslo) may answer with.  Its getters may
\* return a float, a falsy value (0.0 as Float(0), or None), or raise.
FakeProps(t1, t2, ro, gates) ==
    [num_qubits |-> 1, t1 |-> [q \in {0} |-> t1], t2 |-> [q \in {0} |-> t2],
     readout_error |-> [q \in {0} |-> ro], gates |-> gates]
FakeSnapshots ==
    { FakeProps(Float(1), Float(1), Float(1), g) : g \in {<<CxFull>>, <<IdGate>>, <<CxNoAttrs>>} }
    \cup { FakeProps(m, Float(1), Float(1), <<CxFull>>) : m \in {Float(0), Raises} }
    \cup { FakeProps(Float(1), Float(1), NonFloat, <<CxFull>>) }

Truthy(call) == call.kind = "float" /\ call.v # 0

\* lines 89-90: f"{props.t1(qubit):.2e}" if props.t1(qubit) else "N/A"
fake_metric(call) == IF Truthy(call) THEN Fmt(".2e", call.v) ELSE Str("N/A")

fake_gate_data(gate) == [error_rate |-> gate.attrs.error]

\* get_fake_backend_data(fake_backend), lines 81-99: the record, or the
\* exception that leaves it (a getter raises, None is formatted with .4f,
\* a gate does not define `error`).
get_fake_backend_data(fp) ==
    IF \/ \E q \in 0..(fp.num_qubits - 1) :
             \/ fp.t1[q].kind = "raise" \/ fp.t2[q].kind = "raise"
             \/ fp.readout_error[q].kind # "float"
       \/ \E k \in 1..Len(fp.gates) : IsCx(fp.gates[k]) /\ ~HasAttr(fp.gates[k], "error")
    THEN [kind |-> "exc"]
    ELSE [kind |-> "ok",
          rec |-> [operational |-> FALSE,
                   pending_jobs |-> 0,
                   qubits |-> [k \in 1..fp.num_qubits |->
                                 [T1 |-> fake_metric(fp.t1[k - 1]),
                                  T2 |-> fake_metric(fp.t2[k - 1]),
                                  readout_error |-> Fmt(".4f", fp.readout_error[k - 1].v)]],
                   cx_gates |-> MapSeq(fake_gate_data, SelectSeq(fp.gates, IsCx))]]

\* results[name] = rec
DictSet(d, name, rec) ==
    [k \in (DOMAIN d) \cup {name} |-> IF k = name THEN rec ELSE d[k]]

Idle ==
    /\ backends = <<>> /\ fake = None /\ idx = 1 /\ results = <<>> /\ log = <<>>
    /\ saved = [written |-> FALSE] /\ summary = <<>> /\ circuit_meta = None /\ est = None
    /\ prev = None /\ qc = None /\ args = None

\* get_all_backend_errors, lines 8-11.
InitCal ==
    /\ prog = "cal" /\ pc = "loop"
    /\ backends \in BackendLists
    /\ fake \in FakeSnapshots
    /\ idx = 1 /\ results = EmptyDict /\ log = <<>> /\ saved = [written |-> FALSE]
    /\ summary = <<>> /\ circuit_meta = None /\ est = None /\ prev = None /\ qc = None /\ args = None

\* One iteration of the for loop, lines 13-64.
ProcessBackend ==
    /\ prog = "cal" /\ pc = "loop" /\ idx <= Len(backends)
    /\ LET name == backends[idx].name
             out == LiveQuery(backends[idx])
             sub == get_fake_backend_data(fake)
         IN  CASE out.kind = "entry" ->
                    /\ results' = DictSet(results, name, out.rec)
                    /\ log' = Append(log, [ev |-> "processing", name |-> name])
                    /\ pc' = pc /\ idx' = idx + 1
               [] out.kind = "skip" ->
                    /\ results' = results
                    /\ log' = log \o << [ev |-> "processing", name |-> name],
                                        [ev |-> "skipping", name |-> name] >>
                    /\ pc' = pc /\ idx' = idx + 1
               [] OTHER ->
                    /\ log' = log \o << [ev |-> "processing", name |-> name],
                                        [ev |-> "error", name |-> name, msg |-> out.msg] >>
                    /\ IF ~IsRetired(out.msg)
                       THEN results' = results /\ pc' = pc /\ idx' = idx + 1
                       ELSE IF sub.kind = "ok"
                       THEN /\ results' = DictSet(results, name, sub.rec)
                            /\ pc' = pc /\ idx' = idx + 1
                       ELSE \* the exception leaves the handler and the function
                            results' = results /\ pc' = "raised" /\ idx' = idx
    /\ UNCHANGED <<prog, backends, fake, saved, summary, circuit_meta, est, prev, qc, args>>

\* Lines 66-71: the mapping is written and returned.
SaveResults ==
    /\ prog = "cal" /\ pc = "loop" /\ idx > Len(backends)
    /\ saved' = [written |-> TRUE, content |-> results]
    /\ pc' = "done"
    /\ UNCHANGED <<prog, backends, fake, idx, results, log, summary, circuit_meta,
                   est, prev, qc, args>>

NextCal == ProcessBackend \/ SaveResults

SpecCal == InitCal /\ [][NextCal]_vars

\* The devices the loop has visited: those before idx, and the one at idx
\* when the exception of its iteration left the function.
Visited == {k \in 1..Len(backends) : k < idx \/ (k = idx /\ pc = "raised")}

\* The visited devices whose live query raised a "retired"-matching message.
RetiredFailures ==
    {k \in Visited : /\ LiveQuery(backends[k]).kind = "exc"
                     /\ IsRetired(LiveQuery(backends[k]).msg)}

RunEnded == pc \in {"done", "raised"}

\* C1: when the run of get_all_backend_errors has ended, every device whose
\* live query raised a "retired"-matching message has an entry in results,
\* with operational = FALSE and equal to the substitute record of
\* get_fake_backend_data; it never ends the run without an entry.
C1_RetiredAlwaysSubstituted ==
    RunEnded =>
      \A k \in RetiredFailures :
         /\ backends[k].name \in DOMAIN results
         /\ results[backends[k].name].operational = FALSE
         /\ get_fake_backend_data(fake).kind = "ok"
         /\ results[backends[k].name] = get_fake_backend_data(fake).rec

\* A getter call whose metric is not retrieved: it raises or answers None.
Unavailable(call) == call.kind # "float"

\* The visited devices whose live query got as far as the metrics.
LiveExtracted ==
    {k \in Visited : backends[k].status.kind = "ok" /\ backends[k].props.kind = "ok"}

\* In the live record of device k every metric that was not retrieved reads "N/A".
LiveSentinels(k) ==
    LET p == backends[k].props
        rec == results[backends[k].name]
        cx == SelectSeq(p.gates, IsCx)
    IN  /\ \A q \in 0..(p.num_qubits - 1) :
              /\ Unavailable(p.t1[q]) => rec.qubits[q + 1].T1 = Str("N/A")
              /\ Unavailable(p.t2[q]) => rec.qubits[q + 1].T2 = Str("N/A")
              /\ Unavailable(p.readout_error[q]) => rec.qubits[q + 1].readout_error = Str("N/A")
              /\ Unavailable(p.frequency[q]) => rec.qubits[q + 1].frequency = Str("N/A")
        /\ \A j \in 1..Len(cx) :
              /\ gate_error_param(cx[j]) = None => rec.cx_gates[j].error_rate = Str("N/A")
              /\ ~HasAttr(cx[j], "gate_length") => rec.cx_gates[j].gate_length = Str("N/A")

\* In the substitute record every metric that was not retrieved reads "N/A".
FakeSentinels(k) ==
    LET rec == results[backends[k].name]
        cx == SelectSeq(fake.gates, IsCx)
    IN  /\ \A q \in 0..(fake.num_qubits - 1) :
              /\ Unavailable(fake.t1[q]) => rec.qubits[q + 1].T1 = Str("N/A")
              /\ Unavailable(fake.t2[q]) => rec.qubits[q + 1].T2 = Str("N/A")
              /\ Unavailable(fake.readout_error[q]) => rec.qubits[q + 1].readout_error = Str("N/A")
        /\ \A j \in 1..Len(cx) :
              ~HasAttr(cx[j], "error") => rec.cx_gates[j].error_rate = Str("N/A")

\* C4: a metric that cannot be retrieved is replaced by "N/A" and the
\* device's record is still produced, on the live path (every visited device
\* whose status and properties were obtained) and on the substitute path
\* (every visited device that failed with a "retired" message).
C4_MetricFailureKeepsRecord ==
    /\ \A k \in LiveExtracted :
          backends[k].name \in DOMAIN results /\ LiveSentinels(k)
    /\ \A k \in RetiredFailures :
          backends[k].name \in DOMAIN results /\ FakeSentinels(k)

\* The names of the devices whose iteration has started, in log order.
Processed == SelectSeq(log, LAMBDA e : e.ev = "processing")

\* Device k is owed an entry: its live query stored one, or it failed with a
\* "retired"-matching message.
OwedEntry(k) ==
    \/ LiveQuery(backends[k]).kind = "entry"
    \/ /\ LiveQuery(backends[k]).kind = "exc"
       /\ IsRetired(LiveQuery(backends[k]).msg)

\* C12: the devices are visited in list order, no failure of one device
\* ends the run before the later devices are processed and the mapping is
\* written, and when the mapping is written it is the one returned and has
\* an entry for a device exactly when its live query succeeded with
\* properties or failed with a "retired"-matching message.
C12_PartialResultPolicy ==
    /\ pc # "raised"
    /\ Len(Processed) = Cardinality(Visited)
    /\ \A k \in 1..Len(Processed) : Processed[k].name = backends[k].name
    /\ pc = "done" =>
          /\ Visited = 1..Len(backends)
          /\ saved.written /\ saved.content = results
          /\ \A k \in 1..Len(backends) :
                backends[k].name \in DOMAIN results <=> OwedEntry(k)


(***************************************************************************)
(* Circuits: the gate list (qc.data) the constructors append.              *)
(***************************************************************************)

\* Bound: random hidden strings of up to MaxStrLen bits are enumerated in
\* full; longer ones are drawn from RepresentativeStrings.
MaxStrLen == 3

Op(name, qubits) == [name |-> name, qubits |-> qubits]

\* QuantumCircuit(num_qubits, num_clbits) with its gate list.
Circuit(nq, ncl, data) == [num_qubits |-> nq, num_clbits |-> ncl, data |-> data]

\* ''.join(...): strings are sequences of the characters "0" and "1".
BitStrings(n) == [1..n -> {"0", "1"}]

RepresentativeStrings(n) ==
    { [k \in 1..n |-> IF k % 2 = 1 THEN "1" ELSE "0"], [k \in 1..n |-> "0"] }

\* ''.join(random.choice('01') for _ in range(n_qubits))
RandomStrings(n) == IF n <= MaxStrLen THEN BitStrings(n) ELSE RepresentativeStrings(n)

\* hidden_string.count('1')
CountOnes(hs) == Len(SelectSeq(hs, LAMBDA c : c = "1"))

\* The positions (0-based) of the '1' characters, ascending.
RECURSIVE OnesFrom(_, _)
OnesFrom(hs, k) ==
    IF k > Len(hs) THEN <<>>
    ELSE (IF hs[k] = "1" THEN <<k - 1>> ELSE <<>>) \o OnesFrom(hs, k + 1)

\* for i in range(n): qc.h(i)
HLayer(n) == [k \in 1..n |-> Op("h", <<k - 1>>)]

\* The oracle: qc.cx(i, n_qubits) for every '1' at position i.
OracleWrongTarget(hs, n) == MapSeq(LAMBDA i : Op("cx", <<i, 0>>), OnesFrom(hs, 1))
Oracle(hs, n) == MapSeq(LAMBDA i : Op("cx", <<i, n>>), OnesFrom(hs, 1))

\* qc.measure(range(n), range(n))
Measures(n) == [k \in 1..n |-> Op("measure", <<k - 1>>)]

\* bv_algo.py create_bv_circuit(n_qubits, hidden_string), hidden_string given
\* with len(hidden_string) >= n_qubits: (qc, hidden_string).
create_bv_circuit(n, hs) ==
    Circuit(n + 1, n,
            <<Op("x", <<n>>)>> \o HLayer(n + 1) \o Oracle(SubSeq(hs, 1, n), n)
              \o HLayer(n) \o Measures(n))

\* bv_19998.py create_small_test_circuit(n_qubits, hidden_string),
\* hidden_string given with len(hidden_string) <= n_qubits.
create_small_test_circuit(n, hs) ==
    Circuit(n + 1, n, HLayer(n + 1) \o Oracle(hs, n) \o HLayer(n) \o Measures(n))

MaxSet(S) == CHOOSE x \in S : \A y \in S : x >= y

Touches(op, q) == \E m \in 1..Len(op.qubits) : op.qubits[m] = q

\* The last operation before the k-th that acts on qubit q (0: none).
LastBefore(data, k, q) == MaxSet({0} \cup {j \in 1..(k - 1) : Touches(data[j], q)})

\* qc.depth(): every operation sits one level above the deepest of the
\* operations that precede it on its qubits.
RECURSIVE LevelOf(_, _)
LevelOf(data, k) ==
    IF k = 0 THEN 0
    ELSE 1 + MaxSet({ LevelOf(data, LastBefore(data, k, data[k].qubits[m])) :
                      m \in 1..Len(data[k].qubits) })

Depth(circ) == MaxSet({0} \cup { LevelOf(circ.data, k) : k \in 1..Len(circ.data) })

(***************************************************************************)
(* The optimizer (SabreLayout + SabreSwap) is external: a run raises, or   *)
(* returns the circuit with some swaps inserted, after some time.          *)
(***************************************************************************)

\* An outcome that returns inserts `swaps` swap gates on the qubits `pair`.
SabreOutcomes ==
    { [kind |-> "raise"],
      [kind |-> "ok", swaps |-> 0, pair |-> <<0, 1>>, time |-> 1],
      [kind |-> "ok", swaps |-> 2, pair |-> <<0, 1>>, time |-> 3] }

SabreOk == {o \in SabreOutcomes : o.kind = "ok"}

\* pass_manager.run(qc) for an outcome that returns.
Transpiled(circ, o) ==
    [circ EXCEPT !.data = circ.data \o [k \in 1..o.swaps |-> Op("swap", o.pair)]]

\* for instruction in transpiled_qc.data: if instruction.operation.name == 'swap'
CountSwaps(circ) == Cardinality({k \in 1..Len(circ.data) : circ.data[k].name = "swap"})

\* bv_algo.py transpile_with_sabre(qc, coupling_map), for a run that returns:
\* (transpiled_qc, transpile_time, swap_count).
transpile_with_sabre_bv(circ, o) ==
    [transpiled_qc |-> Transpiled(circ, o), transpile_time |-> o.time,
     swap_count |-> CountSwaps(Transpiled(circ, o))]

(***************************************************************************)
(* bv_algo.py: benchmark_bv_circuits                                       *)
(***************************************************************************)

\* Line 80, the first two of the ten sizes [5, 10, ..., 50].
bv_qubit_range == <<5, 10>>

\* Bound: line 81 (5 in the source), the circuits per qubit size.
num_circuits_per_size == 2

BvIterations == Len(bv_qubit_range) * num_circuits_per_size

\* The (n_qubits, i) of the idx-th iteration of the nested loops, lines 92-95.
BvQubits(k) == bv_qubit_range[((k - 1) \div num_circuits_per_size) + 1]
BvCircuitIdx(k) == (k - 1) % num_circuits_per_size

\* The circuits line 97 can build, and the ones line 103 can get back.
BvCircuits ==
    LET built == UNION { { create_bv_circuit(bv_qubit_range[j], hs) :
                             hs \in RandomStrings(bv_qubit_range[j]) } :
                         j \in 1..Len(bv_qubit_range) }
    IN  built \cup { Transpiled(c, o) : c \in built, o \in SabreOk }

\* qc.depth() and transpiled_qc.depth() of lines 112-113, for each of them.
BvDepth == [c \in BvCircuits |-> Depth(c)]

\* Lines 106-116: the record of one successful iteration.
BvResult(n, i, hs, circ, t) ==
    [qubits |-> n, circuit_idx |-> i, hidden_string |-> hs,
     swap_count |-> t.swap_count, transpile_time |-> t.transpile_time,
     original_depth |-> BvDepth[circ], transpiled_depth |-> BvDepth[t.transpiled_qc],
     original_size |-> Len(circ.data), transpiled_size |-> Len(t.transpiled_qc.data)]

\* The except branch of lines 125-126: what it leaves in results.
BvOnErrorPlaceholder(res, n, i) == Append(res, [qubits |-> n, circuit_idx |-> i, failed |-> TRUE])
BvOnError(res, n, i) == res

RECURSIVE SumSeq(_)
SumSeq(s) == IF s = <<>> THEN 0 ELSE Head(s) + SumSeq(Tail(s))

\* a / b of two ints: the quotient, kept as the pair it is computed from.
Ratio(a, b) == [num |-> a, den |-> b]

\* Line 136: [r for r in results if r['qubits'] == n_qubits]
qubit_results(res, n) == SelectSeq(res, LAMBDA r : r.qubits = n)

\* The divisor of lines 138-140: len(qubit_results).
SummaryDivisorFixed(qr) == num_circuits_per_size
SummaryDivisor(qr) == Len(qr)

\* Lines 135-145: the summary lines printed, one per size with results.
SummaryEntry(res, n) ==
    LET qr == qubit_results(res, n)
    IN  IF qr = <<>> THEN <<>>
        ELSE << [qubits |-> n,
                 avg_swap |-> Ratio(SumSeq(MapSeq(LAMBDA r : r.swap_count, qr)),
                                    SummaryDivisor(qr)),
                 avg_time |-> Ratio(SumSeq(MapSeq(LAMBDA r : r.transpile_time, qr)),
                                    SummaryDivisor(qr)),
                 avg_depth_increase |->
                    Ratio(SumSeq(MapSeq(LAMBDA r : r.transpiled_depth - r.original_depth, qr)),
                          SummaryDivisor(qr))] >>

RECURSIVE SummaryFrom(_, _)
SummaryFrom(res, k) ==
    IF k > Len(bv_qubit_range) THEN <<>>
    ELSE SummaryEntry(res, bv_qubit_range[k]) \o SummaryFrom(res, k + 1)

\* One iteration of the inner loop, lines 95-126: a random hidden string,
\* then the transpilation inside try/except.
BvIteration ==
    /\ prog = "bv" /\ pc = "loop" /\ idx <= BvIterations
    /\ \E hs \in RandomStrings(BvQubits(idx)), o \in SabreOutcomes :
         LET n == BvQubits(idx)
             i == BvCircuitIdx(idx)
             circ == create_bv_circuit(n, hs)
         IN  IF o.kind = "ok"
             THEN /\ results' = Append(results,
                                       BvResult(n, i, hs, circ, transpile_with_sabre_bv(circ, o)))
                  /\ log' = log \o << [ev |-> "circuit", qubits |-> n, i |-> i],
                                      [ev |-> "result", qubits |-> n, i |-> i] >>
             ELSE /\ results' = BvOnError(results, n, i)
                  /\ log' = log \o << [ev |-> "circuit", qubits |-> n, i |-> i],
                                      [ev |-> "error", qubits |-> n, i |-> i] >>
    /\ idx' = idx + 1
    /\ UNCHANGED <<prog, pc, backends, fake, saved, summary, circuit_meta, est, prev, qc, args>>

\* Lines 128-147: the results are written, the summary printed, results returned.
BvFinish ==
    /\ prog = "bv" /\ pc = "loop" /\ idx > BvIterations
    /\ saved' = [written |-> TRUE, content |-> results]
    /\ summary' = SummaryFrom(results, 1)
    /\ pc' = "done"
    /\ UNCHANGED <<prog, backends, fake, idx, results, log, circuit_meta, est, prev, qc, args>>

(***************************************************************************)
(* qv_10_5-_d10_25.py: generate_qv_circuits, transpile_with_sabre,         *)
(* benchmark_qv_circuits                                                   *)
(***************************************************************************)

\* Lines 54-55, the first two of [10, 15, 20, 25, 30] and of [10, 15, 20, 25].
qv_qubit_range == <<10, 15>>
qv_depth_range == <<10, 15>>

\* Bound: line 56 (10 in the source), the circuits per configuration.
num_circuits_per_config == 2

\* QuantumVolume(n_qubits, depth, seed=seed): one composite instruction on
\* all the qubits.
QuantumVolume(n, depth, seed) ==
    [num_qubits |-> n, num_clbits |-> 0, depth |-> depth, seed |-> seed,
     data |-> << Op("quantum_volume", [k \in 1..n |-> k - 1]) >>]

\* generate_qv_circuits, lines 9-23: the k-th (circuit, params) of the nested
\* loops over qubit_range, depth_range and range(num_circuits).
QvCount == Len(qv_qubit_range) * Len(qv_depth_range) * num_circuits_per_config
QvParams(k) ==
    LET per == Len(qv_depth_range) * num_circuits_per_config
        n == qv_qubit_range[((k - 1) \div per) + 1]
        d == qv_depth_range[(((k - 1) % per) \div num_circuits_per_config) + 1]
        i == (k - 1) % num_circuits_per_config
    IN  [n_qubits |-> n, depth |-> d, idx |-> i]
QvCircuit(k) ==
    QuantumVolume(QvParams(k).n_qubits, QvParams(k).depth,
                  QvParams(k).idx + (QvParams(k).n_qubits * 100) + (QvParams(k).depth * 10000))

\* float('inf') and the ints it is compared with.
Inf == [inf |-> TRUE, v |-> 0]
Fin(v) == [inf |-> FALSE, v |-> v]
LessOrEqual(a, b) == IF b.inf THEN TRUE ELSE (~a.inf /\ a.v <= b.v)
Less(a, b) == IF b.inf THEN ~a.inf ELSE (~a.inf /\ a.v < b.v)

\* transpile_with_sabre(qc, coupling_map, num_trials), lines 31-50, for
\* trials that all return: `outs` are the outcomes of the num_trials runs.
\* The state of the loop after the first k trials.
RECURSIVE SabreTrials(_, _, _)
SabreTrials(circ, outs, k) ==
    IF k = 0 THEN [best_circuit |-> None, best_swap_count |-> Inf]
    ELSE LET before == SabreTrials(circ, outs, k - 1)
             transpiled_qc == Transpiled(circ, outs[k])
             swap_count == CountSwaps(transpiled_qc)
         IN  IF Less(Fin(swap_count), before.best_swap_count)
             THEN [best_circuit |-> transpiled_qc, best_swap_count |-> Fin(swap_count)]
             ELSE before

transpile_with_sabre_qv(circ, outs) ==
    [best_circuit |-> SabreTrials(circ, outs, Len(outs)).best_circuit,
     best_swap_count |-> SabreTrials(circ, outs, Len(outs)).best_swap_count,
     transpile_time |-> SumSeq(MapSeq(LAMBDA o : o.time, outs))]

\* Lines 79-87: the record of one iteration.
QvResult(pr, circ, t) ==
    [qubits |-> pr.n_qubits, depth |-> pr.depth, circuit_idx |-> pr.idx,
     swap_count |-> t.best_swap_count.v, transpile_time |-> t.transpile_time,
     original_depth |-> Depth(circ), transpiled_depth |-> Depth(t.best_circuit)]

\* One iteration of the loop of lines 72-92: no try/except, an exception of
\* the optimizer leaves benchmark_qv_circuits.
QvIteration ==
    /\ prog = "qv" /\ pc = "loop" /\ idx <= QvCount
    /\ \E o \in SabreOutcomes :
         IF o.kind = "ok"
         THEN /\ results' = Append(results,
                                   QvResult(QvParams(idx), QvCircuit(idx),
                                            transpile_with_sabre_qv(QvCircuit(idx), <<o>>)))
              /\ log' = log \o << [ev |-> "processing", qubits |-> QvParams(idx).n_qubits,
                                   i |-> idx],
                                  [ev |-> "result", qubits |-> QvParams(idx).n_qubits,
                                   i |-> idx] >>
              /\ idx' = idx + 1 /\ pc' = pc
         ELSE /\ results' = results
              /\ log' = Append(log, [ev |-> "processing", qubits |-> QvParams(idx).n_qubits,
                                     i |-> idx])
              /\ idx' = idx /\ pc' = "raised"
    /\ UNCHANGED <<prog, backends, fake, saved, summary, circuit_meta, est, prev, qc, args>>

\* Lines 94-99: the results are written and returned.
QvFinish ==
    /\ prog = "qv" /\ pc = "loop" /\ idx > QvCount
    /\ saved' = [written |-> TRUE, content |-> results]
    /\ pc' = "done"
    /\ UNCHANGED <<prog, backends, fake, idx, results, log, summary, circuit_meta, est,
                   prev, qc, args>>

(***************************************************************************)
(* bv_19998.py: create_large_bv_circuit, estimate_sabre_performance,       *)
(* actual_sabre_transpile, benchmark_large_bv                              *)
(***************************************************************************)

\* Bound: for n_qubits up to MaxN every outcome of random.sample is
\* enumerated; above it the samples are drawn from RepresentativeSamples.
MaxN == 21

\* No two indices of f hold the same value.
IsInjective(f) == Cardinality({f[a] : a \in DOMAIN f}) = Cardinality(DOMAIN f)

RepresentativeSamples(n, k) ==
    { [j \in 1..k |-> j - 1], [j \in 1..k |-> n - j], [j \in 1..k |-> (7 * j) % n] }

\* random.sample(range(n), k): k pairwise distinct positions.
random_sample_with_replacement(n, k) ==
    IF n <= MaxN THEN [1..k -> 0..(n - 1)]
    ELSE RepresentativeSamples(n, k) \cup { [j \in 1..k |-> 0] }
random_sample(n, k) ==
    IF n <= MaxN THEN { f \in [1..k -> 0..(n - 1)] : IsInjective(f) }
    ELSE { f \in RepresentativeSamples(n, k) : IsInjective(f) }

\* Line 17: num_ones = n_qubits // 10
num_ones(n) == n \div 10

\* Lines 19-22: the string with '1' at the sampled positions.
StringOf(n, positions) ==
    LET ones == {positions[j] : j \in 1..Len(positions)}
    IN  [k \in 1..n |-> IF (k - 1) \in ones THEN "1" ELSE "0"]

\* The hidden strings lines 14-22 may generate when none is given.
GeneratedStrings(n) == { StringOf(n, ps) : ps \in random_sample(n, num_ones(n)) }

\* Line 29: the base depth, H layer + oracle + H layer.
base_depth_no_layers(c) == c
base_depth(c) == 2 + c

\* Lines 25-31: the metadata of create_large_bv_circuit(n_qubits, hidden_string)
\* for the hidden string given or generated.
create_large_bv_circuit(n, hs) ==
    LET ones == CountOnes(hs)
    IN  [n_qubits |-> n, hidden_string |-> hs, num_cx |-> ones,
         depth |-> base_depth(ones), total_gates |-> 2 * n + 1 + ones]

\* int(a / b) for ints a and b > 0: the quotient truncated toward zero.
\* Python divides as floats; the result is this integer while a < 2^53.
PyIntDiv(a, b) == IF a >= 0 THEN a \div b ELSE -((-a) \div b)

\* Line 46.
avg_distance == 2

\* Line 47: estimated_swaps = int(num_cx * avg_distance / 3)
estimated_swaps_mod(num_cx) == (num_cx * avg_distance) % 3
estimated_swaps(num_cx) == PyIntDiv(num_cx * avg_distance, 3)

\* Line 57: estimated_depth = circuit_meta['depth'] + estimated_swaps * 3
estimated_depth_minus(depth, swaps) == depth - swaps * 3
estimated_depth(depth, swaps) == depth + swaps * 3

\* The coupling-map argument: the CouplingMap of the small circuits, or the
\* dict of lines 116-120.
CouplingMaps ==
    { [type |-> "heavy-hex", size |-> 20000, avg_connectivity |-> 3],
      [type |-> "grid", size |-> 50, avg_connectivity |-> 2] }
large_coupling_map == [type |-> "heavy-hex", size |-> 20000, avg_connectivity |-> 3]

\* The wall-clock time of lines 42-54, in some unit.
EstimateTimes == {4, 9}

\* estimate_sabre_performance(circuit_meta, coupling_map), lines 38-59, with
\* the measured time t: (estimated_swaps, estimated_depth, transpile_time).
estimate_sabre_performance(meta, coupling_map, t) ==
    [estimated_swaps |-> estimated_swaps(meta.num_cx),
     estimated_depth |-> estimated_depth(meta.depth, estimated_swaps(meta.num_cx)),
     transpile_time |-> t]

\* actual_sabre_transpile(circuit, coupling_map), lines 86-102, for a run
\* that returns: (swap_count, depth, transpile_time).
actual_sabre_transpile(circ, o) ==
    [swap_count |-> CountSwaps(Transpiled(circ, o)), depth |-> Depth(Transpiled(circ, o)),
     transpile_time |-> o.time]

\* Line 106, and the first two of line 108's [1000, 5000, 10000, 15000, 19998].
small_range == <<5, 10, 20>>
large_range == <<1000, 5000>>

\* Lines 129-135 and 147-153: the records.
SmallResult(n, circ, t) ==
    [qubits |-> n, swap_count |-> t.swap_count, transpile_time |-> t.transpile_time,
     original_depth |-> Depth(circ), transpiled_depth |-> t.depth]
LargeResult(n, meta, e) ==
    [qubits |-> n, estimated_swaps |-> e.estimated_swaps,
     estimated_time |-> e.transpile_time, original_depth |-> meta.depth,
     estimated_depth |-> e.estimated_depth]

\* One iteration of the loop of lines 123-138: no try/except, an exception
\* of the optimizer leaves benchmark_large_bv.
LargeSmallIteration ==
    /\ prog = "large" /\ pc = "small" /\ idx <= Len(small_range)
    /\ \E hs \in RandomStrings(small_range[idx]), o \in SabreOutcomes :
         LET n == small_range[idx]
             circ == create_small_test_circuit(n, hs)
         IN  IF o.kind = "ok"
             THEN /\ results' = Append(results, SmallResult(n, circ, actual_sabre_transpile(circ, o)))
                  /\ log' = log \o << [ev |-> "testing", qubits |-> n, i |-> idx],
                                      [ev |-> "result", qubits |-> n, i |-> idx] >>
                  /\ idx' = IF idx = Len(small_range) THEN 1 ELSE idx + 1
                  /\ pc' = IF idx = Len(small_range) THEN "large" ELSE pc
             ELSE /\ results' = results
                  /\ log' = Append(log, [ev |-> "testing", qubits |-> n, i |-> idx])
                  /\ idx' = idx /\ pc' = "raised"
    /\ UNCHANGED <<prog, backends, fake, saved, summary, circuit_meta, est, prev, qc, args>>

\* One iteration of the loop of lines 141-156.
LargeEstimateIteration ==
    /\ prog = "large" /\ pc = "large" /\ idx <= Len(large_range)
    /\ \E hs \in GeneratedStrings(large_range[idx]), t \in EstimateTimes :
         LET n == large_range[idx]
             meta == create_large_bv_circuit(n, hs)
         IN  /\ results' = Append(results,
                                  LargeResult(n, meta,
                                              estimate_sabre_performance(meta, large_coupling_map, t)))
             /\ log' = log \o << [ev |-> "estimating", qubits |-> n, i |-> idx],
                                 [ev |-> "result", qubits |-> n, i |-> idx] >>
    /\ idx' = idx + 1
    /\ UNCHANGED <<prog, pc, backends, fake, saved, summary, circuit_meta, est, prev, qc, args>>

\* Line 158: return results (benchmark_large_bv writes no file).
LargeFinish ==
    /\ prog = "large" /\ pc = "large" /\ idx > Len(large_range)
    /\ pc' = "done"
    /\ UNCHANGED <<prog, backends, fake, idx, results, log, saved, summary, circuit_meta,
                   est, prev, qc, args>>

\* The three benchmark scripts, each from its start.
InitSweep ==
    /\ prog \in {"bv", "qv", "large"}
    /\ pc = IF prog = "large" THEN "small" ELSE "loop"
    /\ Idle

NextSweep ==
    \/ BvIteration \/ BvFinish
    \/ QvIteration \/ QvFinish
    \/ LargeSmallIteration \/ LargeEstimateIteration \/ LargeFinish

SpecSweep == InitSweep /\ [][NextSweep]_vars

(***************************************************************************)
(* The functions of bv_19998.py and bv_algo.py called on their own.        *)
(***************************************************************************)

\* Bound: the largest interaction-gate count of a metadata dict handed
\* directly to estimate_sabre_performance.
MaxCx == 7

\* A str argument, as opposed to None.
PyStr(hs) == [py |-> "str", s |-> hs]

\* "10100"
FixedHiddenString == <<"1", "0", "1", "0", "0">>

\* Hidden strings a caller passes, with the qubit counts they are passed with.
GivenStrings(n) == IF n <= MaxStrLen THEN BitStrings(n)
                   ELSE IF n = 5 THEN {FixedHiddenString} ELSE {}

\* Qubit counts of the calls of create_large_bv_circuit.
LargeCallQubits == (1..MaxN) \cup {1000}

\* create_large_bv_circuit(n_qubits) or create_large_bv_circuit(n_qubits, hs).
CallCreateLarge ==
    /\ prog = "meta" /\ circuit_meta = None
    /\ \E n \in LargeCallQubits :
         \/ \E hs \in GeneratedStrings(n) :
              /\ args' = [fn |-> "create_large_bv_circuit", n_qubits |-> n, hidden_string |-> None]
              /\ circuit_meta' = create_large_bv_circuit(n, hs)
         \/ \E hs \in GivenStrings(n) :
              /\ args' = [fn |-> "create_large_bv_circuit", n_qubits |-> n, hidden_string |-> PyStr(hs)]
              /\ circuit_meta' = create_large_bv_circuit(n, hs)
    /\ est' = None
    /\ UNCHANGED <<prog, pc, backends, fake, idx, results, log, saved, summary, prev, qc>>

\* estimate_sabre_performance(circuit_meta, coupling_map) on the metadata
\* create_large_bv_circuit returned.
CallEstimate ==
    /\ prog = "meta" /\ circuit_meta # None /\ est = None
    /\ \E cm \in CouplingMaps, t \in EstimateTimes :
         est' = [circuit_meta |-> circuit_meta, coupling_map |-> cm,
                 ret |-> estimate_sabre_performance(circuit_meta, cm, t)]
    /\ UNCHANGED <<prog, pc, backends, fake, idx, results, log, saved, summary,
                   circuit_meta, prev, qc, args>>

\* Metadata dicts a caller hands to estimate_sabre_performance directly.
MetaDicts ==
    { [n_qubits |-> n, num_cx |-> c, depth |-> base_depth(c)] :
        n \in {1, 1000}, c \in 0..MaxCx }

\* estimate_sabre_performance(meta, coupling_map), called twice; the first
\* call is kept in prev.
EstCall ==
    /\ prog = "est" /\ prev = None
    /\ \E meta \in MetaDicts, cm \in CouplingMaps :
         est' = [circuit_meta |-> meta, coupling_map |-> cm,
                 ret |-> estimate_sabre_performance(meta, cm, 4)]
    /\ prev' = est
    /\ UNCHANGED <<prog, pc, backends, fake, idx, results, log, saved, summary,
                   circuit_meta, qc, args>>

\* Qubit counts of the calls of the circuit constructors.
CircuitCallQubits == (1..MaxStrLen) \cup {5}

\* create_bv_circuit(n_qubits) or create_bv_circuit(n_qubits, hs), bv_algo.py.
CallCreateBv ==
    /\ prog = "circ" /\ qc = None
    /\ \E n \in CircuitCallQubits :
         \/ \E hs \in RandomStrings(n) :
              /\ args' = [fn |-> "create_bv_circuit", n_qubits |-> n, hidden_string |-> None]
              /\ qc' = [qc |-> create_bv_circuit(n, hs), hidden_string |-> hs]
         \/ \E hs \in GivenStrings(n) :
              /\ args' = [fn |-> "create_bv_circuit", n_qubits |-> n, hidden_string |-> PyStr(hs)]
              /\ qc' = [qc |-> create_bv_circuit(n, hs), hidden_string |-> hs]
    /\ UNCHANGED <<prog, pc, backends, fake, idx, results, log, saved, summary,
                   circuit_meta, est, prev>>

\* create_small_test_circuit(n_qubits) or (n_qubits, hs), bv_19998.py.
CallCreateSmall ==
    /\ prog = "circ" /\ qc = None
    /\ \E n \in CircuitCallQubits :
         \/ \E hs \in RandomStrings(n) :
              /\ args' = [fn |-> "create_small_test_circuit", n_qubits |-> n, hidden_string |-> None]
              /\ qc' = [qc |-> create_small_test_circuit(n, hs), hidden_string |-> hs]
         \/ \E hs \in GivenStrings(n) :
              /\ args' = [fn |-> "create_small_test_circuit", n_qubits |-> n, hidden_string |-> PyStr(hs)]
              /\ qc' = [qc |-> create_small_test_circuit(n, hs), hidden_string |-> hs]
    /\ UNCHANGED <<prog, pc, backends, fake, idx, results, log, saved, summary,
                   circuit_meta, est, prev>>

\* Bound: the largest num_trials transpile_with_sabre is called with.
MaxTrials == 3

\* What one run of the optimizer inside the trial loop may do: the outcomes
\* of the sweeps, and returns with the swaps laid out on other qubits.
TrialOutcomes ==
    SabreOutcomes
    \cup { [kind |-> "ok", swaps |-> 1, pair |-> <<0, 1>>, time |-> 2],
           [kind |-> "ok", swaps |-> 1, pair |-> <<1, 2>>, time |-> 2] }

\* The trials of `outs` before the first one that raises (all, if none does).
Returning(outs) ==
    LET raising == {k \in 1..Len(outs) : outs[k].kind = "raise"}
    IN  IF raising = {} THEN outs ELSE SubSeq(outs, 1, Min(raising) - 1)

\* transpile_with_sabre(qc, coupling_map, num_trials) of qv_10_5-_d10_25.py on
\* a Quantum Volume circuit.  The log holds one line per pass_manager.run(qc):
\* the circuit it returned, or that it raised; an exception of a run leaves
\* the function.
CallTranspileQv ==
    /\ prog = "trials" /\ pc = "call"
    /\ \E num_trials \in 0..MaxTrials :
         \E outs \in [1..num_trials -> TrialOutcomes] :
           LET circ == QvCircuit(1)
               done == Returning(outs)
               runs == [k \in 1..Len(done) |->
                          [ev |-> "run", returned |-> Transpiled(circ, done[k])]]
           IN  /\ args' = [fn |-> "transpile_with_sabre", qc |-> circ,
                            num_trials |-> num_trials]
               /\ IF Len(done) = num_trials
                  THEN /\ log' = runs
                       /\ qc' = transpile_with_sabre_qv(circ, outs)
                       /\ pc' = "returned"
                  ELSE /\ log' = Append(runs, [ev |-> "raise"])
                       /\ qc' = qc
                       /\ pc' = "raised"
    /\ UNCHANGED <<prog, backends, fake, idx, results, saved, summary, circuit_meta,
                   est, prev>>

InitPure ==
    /\ prog \in {"meta", "est", "circ", "trials"}
    /\ pc = "call"
    /\ Idle

NextPure ==
    \/ CallCreateLarge \/ CallEstimate \/ EstCall \/ CallCreateBv \/ CallCreateSmall
    \/ CallTranspileQv

SpecPure == InitPure /\ [][NextPure]_vars

(***************************************************************************)
(* Properties of the sweeps                                                *)
(***************************************************************************)

\* C2: in every benchmark sweep an error raised during transpilation is
\* caught for that iteration only and the sweep goes on to its end: no sweep
\* is ever left by the exception of one iteration.
C2_ErrorNeverEndsSweep == pc # "raised"

\* The iterations that were processed successfully, in the order of the log.
Successes == SelectSeq(log, LAMBDA e : e.ev = "result")
Errors == SelectSeq(log, LAMBDA e : e.ev = "error")

\* Every record carries the qubit count of the circuit it was derived from,
\* and there is one record per successful iteration, in sweep order, and
\* none for a failed one.
RecordsMatchSuccesses ==
    /\ Len(results) = Len(Successes)
    /\ \A k \in 1..Len(results) :
         /\ results[k].qubits = Successes[k].qubits
         /\ prog = "bv" => /\ Len(results[k].hidden_string) = results[k].qubits
                           /\ results[k].circuit_idx = Successes[k].i
         /\ prog = "qv" => results[k].qubits = QvCircuit(Successes[k].i).num_qubits

\* A step leaves results alone or appends one record to it.
GrowsByAppend ==
    (prog \in {"bv", "qv", "large"} /\ results' # results)
       => (Len(results') = Len(results) + 1 /\ results' = Append(results, results'[Len(results')]))

\* C3: at every point of a sweep each record carries the qubit count of its
\* circuit spec, the list only grows by appending one record per successful
\* iteration in sweep order, and an iteration that raised has no record.
C3_RecordsOnlyForSuccesses ==
    /\ [](prog \in {"bv", "qv", "large"} => RecordsMatchSuccesses)
    /\ [][GrowsByAppend]_vars

\* C3 witness: a BV sweep that went on after a failed iteration and recorded
\* a later one.
C3_Witness ==
    /\ prog = "bv" /\ Len(Errors) >= 1 /\ Len(results) >= 1
    /\ \E j, k \in 1..Len(log) : j < k /\ log[j].ev = "error" /\ log[k].ev = "result"

\* The value of a summarised field in a record.
FieldOf(r, field) ==
    CASE field = "swap" -> r.swap_count
      [] field = "time" -> r.transpile_time
      [] OTHER -> r.transpiled_depth - r.original_depth

\* The sum of a field over the first k records whose qubit count is n.
RECURSIVE FieldSum(_, _, _)
FieldSum(n, field, k) ==
    IF k = 0 THEN 0
    ELSE FieldSum(n, field, k - 1)
           + (IF results[k].qubits = n THEN FieldOf(results[k], field) ELSE 0)

GroupSize(n) == Cardinality({k \in 1..Len(results) : results[k].qubits = n})

\* The ratio r is the quotient a / b.
IsQuotient(r, a, b) == r.den # 0 /\ b # 0 /\ r.num * b = a * r.den

SummaryLines(n) == {k \in 1..Len(summary) : summary[k].qubits = n}

\* C10: when benchmark_bv_circuits has printed its summary, every qubit
\* count with k >= 1 records has exactly one summary line whose three means
\* are the sums over exactly those k records divided by k, and a qubit count
\* without records has no line.
C10_SummaryIsArithmeticMean ==
    (prog = "bv" /\ pc = "done") =>
      \A m \in 1..Len(bv_qubit_range) :
        LET n == bv_qubit_range[m]
            k == GroupSize(n)
        IN  IF k = 0 THEN SummaryLines(n) = {}
            ELSE /\ Cardinality(SummaryLines(n)) = 1
                 /\ \A j \in SummaryLines(n) :
                      /\ IsQuotient(summary[j].avg_swap, FieldSum(n, "swap", Len(results)), k)
                      /\ IsQuotient(summary[j].avg_time, FieldSum(n, "time", Len(results)), k)
                      /\ IsQuotient(summary[j].avg_depth_increase,
                                    FieldSum(n, "depth", Len(results)), k)

\* C10 witness: a finished BV sweep in which one size lost an iteration but
\* kept another, and the sizes have different numbers of records.
C10_Witness ==
    /\ prog = "bv" /\ pc = "done"
    /\ GroupSize(bv_qubit_range[1]) = 1
    /\ GroupSize(bv_qubit_range[2]) = num_circuits_per_size
    /\ Len(summary) = 2
    /\ FieldSum(bv_qubit_range[2], "swap", Len(results)) > 0

\* C8: the record benchmark_large_bv stores for 1000 qubits (100 ones) has
\* estimated_swaps = 66, original depth 102 and estimated_depth = 300,
\* whichever positions were sampled.
C8_Estimate1000 ==
    prog = "large" =>
      \A k \in 1..Len(results) :
        ("estimated_swaps" \in DOMAIN results[k] /\ results[k].qubits = 1000) =>
           /\ results[k].estimated_swaps = 66
           /\ results[k].original_depth = 102
           /\ results[k].estimated_depth = 300

\* C8 witness: the estimate for 1000 qubits has been recorded.
C8_Witness ==
    /\ prog = "large"
    /\ \E k \in 1..Len(results) :
         "estimated_swaps" \in DOMAIN results[k] /\ results[k].qubits = 1000

(***************************************************************************)
(* Properties of the functions called on their own                         *)
(***************************************************************************)

\* A call of create_large_bv_circuit without a hidden string has returned.
GeneratedCall == prog = "meta" /\ circuit_meta # None /\ args.hidden_string = None

OnesIn(hs) == Cardinality({k \in 1..Len(hs) : hs[k] = "1"})

\* C5: create_large_bv_circuit(n) without a hidden string returns a string of
\* length n with exactly floor(n / 10) ones, so num_cx = floor(n / 10) and
\* 0 <= num_cx <= n.
C5_GeneratedDensity ==
    GeneratedCall =>
      /\ Len(circuit_meta.hidden_string) = circuit_meta.n_qubits
      /\ circuit_meta.n_qubits = args.n_qubits
      /\ OnesIn(circuit_meta.hidden_string) = circuit_meta.num_cx
      /\ 10 * circuit_meta.num_cx <= circuit_meta.n_qubits
      /\ circuit_meta.n_qubits < 10 * (circuit_meta.num_cx + 1)
      /\ 0 <= circuit_meta.num_cx /\ circuit_meta.num_cx <= circuit_meta.n_qubits

\* C5 witness: a generated string with two ones among 20 positions.
C5_Witness == GeneratedCall /\ circuit_meta.n_qubits = 20 /\ circuit_meta.num_cx = 2

\* C6: estimated_swaps = floor(c * 2 / 3) for the interaction-gate count c,
\* and of two calls the one with the smaller c never estimates more swaps,
\* whatever the qubit counts and coupling maps of the two calls.
C6_SwapsMonotone ==
    (est # None) =>
      /\ 3 * est.ret.estimated_swaps <= 2 * est.circuit_meta.num_cx
      /\ 2 * est.circuit_meta.num_cx < 3 * (est.ret.estimated_swaps + 1)
      /\ (prev # None /\ prev.circuit_meta.num_cx <= est.circuit_meta.num_cx)
            => prev.ret.estimated_swaps <= est.ret.estimated_swaps

\* C6 witness: two calls with different qubit counts and coupling maps, the
\* second with more interaction gates and more swaps.
C6_Witness ==
    /\ est # None /\ prev # None
    /\ prev.circuit_meta.num_cx < est.circuit_meta.num_cx
    /\ prev.circuit_meta.n_qubits # est.circuit_meta.n_qubits
    /\ prev.coupling_map # est.coupling_map
    /\ 0 < prev.ret.estimated_swaps /\ prev.ret.estimated_swaps < est.ret.estimated_swaps

\* C7: the metadata's depth is 2 + the number of ones of the hidden string,
\* given or generated, and estimated_depth = depth + 3 * estimated_swaps,
\* which is never below the base depth.
C7_DepthNeverBelowBase ==
    /\ (prog = "meta" /\ circuit_meta # None) =>
          circuit_meta.depth = 2 + OnesIn(circuit_meta.hidden_string)
    /\ (prog = "meta" /\ est # None) =>
          /\ est.ret.estimated_depth = circuit_meta.depth + 3 * est.ret.estimated_swaps
          /\ est.ret.estimated_depth >= circuit_meta.depth
          /\ est.ret.estimated_swaps >= 0

\* C7 witness: an estimate with swaps for the metadata of a given string.
C7_Witness ==
    /\ prog = "meta" /\ est # None /\ args.hidden_string # None
    /\ est.ret.estimated_swaps > 0 /\ est.ret.estimated_depth > circuit_meta.depth

\* The call was made with qubit count 5 and hidden string "10100".
FixedCall(fn) ==
    /\ args # None /\ args.fn = fn /\ args.n_qubits = 5
    /\ args.hidden_string = PyStr(FixedHiddenString)

CxOps(data) == {k \in 1..Len(data) : data[k].name = "cx"}

\* C9: for qubit count 5 and hidden string "10100" the metadata has
\* num_cx = 2 and total_gates = 13, and both circuit constructors append
\* exactly 2 CX gates, each with target qubit 5.
C9_FixedString ==
    /\ FixedCall("create_large_bv_circuit") =>
          circuit_meta.num_cx = 2 /\ circuit_meta.total_gates = 13
    /\ (FixedCall("create_bv_circuit") \/ FixedCall("create_small_test_circuit")) =>
          /\ Cardinality(CxOps(qc.qc.data)) = 2
          /\ \A k \in CxOps(qc.qc.data) : qc.qc.data[k].qubits[2] = 5

\* C9 witness: create_bv_circuit(5, "10100") has returned its circuit.
C9_Witness == FixedCall("create_bv_circuit") /\ qc # None /\ qc.qc.num_qubits = 6

\* The number of operations named 'swap' in a circuit.
SwapOps(circ) == Cardinality({k \in 1..Len(circ.data) : circ.data[k].name = "swap"})

\* transpile_with_sabre of the Quantum Volume script has returned.
TrialsReturned == prog = "trials" /\ pc = "returned"

\* The trials whose returned circuit has the fewest swap operations.
MinTrials ==
    {k \in 1..Len(log) :
       \A j \in 1..Len(log) : SwapOps(log[k].returned) <= SwapOps(log[j].returned)}

\* C11: a call of transpile_with_sabre with num_trials >= 1 that returns has
\* run the optimizer exactly num_trials times, returns the least number of
\* 'swap' operations over the circuits of all the trials, and returns the
\* circuit of the first trial that has that many, so that the circuit and
\* the count come from the same trial.
C11_BestOfTrials ==
    (TrialsReturned /\ args.num_trials >= 1) =>
      /\ Len(log) = args.num_trials
      /\ \A k \in 1..Len(log) : log[k].ev = "run"
      /\ MinTrials # {}
      /\ qc.best_swap_count = Fin(SwapOps(log[Min(MinTrials)].returned))
      /\ qc.best_circuit = log[Min(MinTrials)].returned
      /\ Fin(SwapOps(qc.best_circuit)) = qc.best_swap_count

\* C11 witness: three trials; the first has more swaps than the other two,
\* which tie with different circuits, and the second one's is returned.
C11_Witness ==
    /\ TrialsReturned /\ args.num_trials = 3
    /\ MinTrials = {2, 3}
    /\ log[2].returned # log[3].returned
    /\ SwapOps(log[2].returned) > 0
    /\ qc.best_circuit = log[2].returned

====
